---- MODULE Spec2Model ----
(***************************************************************************)
(* Clock controller of the spoiler painter (src/src/SpoilerPainter.ts):    *)
(* the SpoilerPainter instance, the style of its element (the channel to   *)
(* the paint worklet) and the host's animation-frame scheduler.            *)
(*                                                                         *)
(* Time is kept in whole milliseconds: performance.now(), the frame        *)
(* timestamps and #t0 are ms, and the clock #_t, #_tstop and               *)
(* #_fadeDuration, which the code keeps in seconds, are kept here as the   *)
(* same quantity times 1000 (so `t += dt / 1000` is `t + dt`).             *)
(***************************************************************************)
EXTENDS Integers, FiniteSets, Sequences, TLC

(* ---- bounds of the model ---- *)
MaxWall == 3          \* performance.now() runs over 0..MaxWall ms
MaxHandles == 3       \* requestAnimationFrame is called at most this often
MaxDraws == 12        \* draws taken from one generator
MaxCoord == 6         \* particle coordinates run over -MaxCoord..MaxCoord
MaxSceneTime == 250   \* worldt + phase runs over 0..MaxSceneTime hundredths of a second
MaxParticles == 5     \* iterations of the particle loop of one paint

(* ---- program constants ---- *)
DEFAULT_FPS == 24
BLOCK_MAX_TILE == 293
INLINE_MAX_TILE == 333
DEFAULT_FADE_DURATION == 1500
GAP_RATIO == 8
DEFAULT_GAP == 6
DEFAULT_OPTIONS ==
  [fps |-> DEFAULT_FPS, gap |-> DEFAULT_GAP, density |-> "0.12",
   mimicWords |-> FALSE, fallback |-> "black"]

(* ---- optional values: null/undefined/absent is <<>>, a value v is <<v>> ---- *)
Null == <<>>
Some(v) == <<v>>
ValueOf(o) == o[1]

Min2(a, b) == IF a <= b THEN a ELSE b
Abs(x) == IF x < 0 THEN -x ELSE x
SetMin(S) == CHOOSE x \in S : \A y \in S : x <= y

(* ---- inputs ---- *)
\* fps option: omitted, 0 (static), or 1000 frames per second (a 1 ms interval)
FpsOptions == {Null, Some(0), Some(1000)}
\* animate option of hide/reveal: true (also the default when omitted), false,
\* or a number of seconds (here in ms)
AnimateOptions ==
  { [isBool |-> TRUE, bool |-> TRUE, num |-> 0],
    [isBool |-> TRUE, bool |-> FALSE, num |-> 0],
    [isBool |-> FALSE, bool |-> FALSE, num |-> 1] }
AccentOptions == {Null, Some("red")}
\* geometry of the element: display, bounding rect / line height in px
Layouts ==
  { [display |-> "block", width |-> 300, height |-> 100, lineHeight |-> 100] }
\* options of the update() calls made after construction
UpdateOptions ==
  [fps : FpsOptions \ {Some(0)}, forceFallback : BOOLEAN, accentColor : {Null}]
\* options of the constructor; the observer is always installed, as what it
\* calls (startAnimation, stopAnimation) is public and callable without it
CtorOptions ==
  [fps : FpsOptions, forceFallback : BOOLEAN, accentColor : {Null},
   onlyInViewport : {TRUE}]

PropNames ==
  {"background", "--t", "--t-stop", "--fade", "--gap", "--words", "--density",
   "--accent", "--fallback"}

\* the worklet is not painting
NoPaint == [kind |-> "idle"]

VARIABLES
  isCSSHoudiniSupported,  \* module constant: CSS.paintWorklet exists
  prefersReducedMotion,   \* module constant: the media query matched at load
  layout,                 \* geometry of el, as getComputedStyle/getClientRects report it
  w,                      \* the painter, el.style and the host's callback map
  frameHandles,           \* callbacks of the running frame that are still to be run
  frameTs,                \* timestamp of the running animation frame (0 between frames)
  wall,                   \* performance.now()
  threw,                  \* history: the last operation raised an error
  hist,                   \* history, recorded under SpecClock: performance.now() at the
                          \* last hide(), and whether the tick chain ended on a stop mark
  worklet                 \* the evaluation of the paint worklet that is in progress

vars ==
  <<isCSSHoudiniSupported, prefersReducedMotion, layout, w, frameHandles, frameTs,
    wall, threw, hist, worklet>>

(* ---- el.style ---- *)
setProperty(s, prop, value) == [s EXCEPT !.style[prop] = Some(value)]
removeProperty(s, prop) == [s EXCEPT !.style[prop] = Null]

\* Number.prototype.toFixed(3) of a value in seconds that is a whole number of
\* milliseconds: sign, integer part, three decimals
toFixed3(ms) ==
  [neg |-> ms < 0, int |-> Abs(ms) \div 1000, frac |-> Abs(ms) % 1000]

(* ---- accessors that also write the channel ---- *)
set_fadeDuration(s, value) ==
  setProperty([s EXCEPT !.fadeDuration = value], "--fade", <<value, "s">>)

set_tstop(s, value) ==
  IF value # Null
    THEN setProperty([s EXCEPT !.tstop = value], "--t-stop", toFixed3(ValueOf(value)))
    ELSE removeProperty([s EXCEPT !.tstop = value], "--t-stop")

set_t(s, value) ==
  setProperty([s EXCEPT !.t = value], "--t", toFixed3(value))

(* ---- host scheduler ---- *)
\* The host keeps a map of animation frame callbacks. A frame takes the
\* handles in the map and one timestamp, then runs those callbacks in order,
\* each with that timestamp; a callback requested during a frame runs in a
\* later frame. Other code of the page (an earlier callback of the same frame,
\* an event handler) may call the painter between two callbacks, at a
\* performance.now() that is later than the frame's timestamp.
requestAnimationFrame(s) ==
  [s EXCEPT !.raf = Some(s.nextHandle),
            !.callbacks = s.callbacks \cup {s.nextHandle},
            !.nextHandle = s.nextHandle + 1]

cancelAnimationFrame(s, handle) ==
  [s EXCEPT !.callbacks = s.callbacks \ {handle}]

(* ---- animation loop ---- *)
\* JavaScript truthiness of a number-or-null: null and 0 are falsy
Truthy(o) == o # Null /\ ValueOf(o) # 0

\* dt < 1000 / maxFPS for dt > 0 (1000 / 0 is Infinity)
BelowFrameInterval(dt, maxFPS) ==
  IF maxFPS > 0 THEN dt * maxFPS < 1000 ELSE maxFPS = 0

shouldStop(s) ==
  Truthy(s.tstop) /\ s.t > ValueOf(s.tstop) + s.fadeDuration

\* mutant of frameLive: no frame is ever skipped
frameLive_noThrottle(s, now) ==
  LET s1 == IF s.maxFPS > 0 /\ ~shouldStop(s) THEN requestAnimationFrame(s) ELSE s
      dt == now - s1.t0
  IN [set_t(s1, s1.t + dt) EXCEPT !.t0 = now]

\* #frame after its destroyed check
frameLive(s, now) ==
  LET s1 == IF s.maxFPS > 0 /\ ~shouldStop(s) THEN requestAnimationFrame(s) ELSE s
      dt == now - s1.t0
  IN IF dt > 0 /\ BelowFrameInterval(dt, s1.maxFPS)
       THEN s1
       ELSE [set_t(s1, s1.t + dt) EXCEPT !.t0 = now]

\* mutant of frame: the destroyed check is missing
frame_noDestroyedCheck(s, now) == frameLive(s, now)

frame(s, now) ==
  IF s.wasDestroyed THEN s ELSE frameLive(s, now)

startAnimation(s, perfNow) ==
  frame([s EXCEPT !.t0 = perfNow], perfNow)

stopAnimation(s) ==
  IF Truthy(s.raf)
    THEN [cancelAnimationFrame(s, ValueOf(s.raf)) EXCEPT !.raf = Null]
    ELSE s

isAnimating(s) == s.raf # Null

(* ---- configuration ---- *)
\* a length: `${n}px` of a number, the string itself otherwise
Px(n) == <<n, "px">>
Auto == <<"auto">>

useBackgroundStyle(s, ws, hs, tile) ==
  setProperty(s, "background",
    <<"paint(spoiler)",
      IF tile THEN "repeat left center" ELSE "no-repeat center center", ws, hs>>)

\* colord(accentColor).toHsl(), an opaque pure function of the colour string
toHsl(color) == <<"hsl", color>>

\* the body of update() once the destroyed check has passed
update(s, o, lay, supported, reducedMotion) ==
  LET fps == IF o.fps = Null THEN DEFAULT_OPTIONS.fps ELSE ValueOf(o.fps)
      s0 == [s EXCEPT !.maxFPS = IF reducedMotion THEN 0 ELSE fps,
                      !.forceFallback = o.forceFallback]
      isBlockElement == lay.display # "inline"
      mimicWords == IF isBlockElement THEN FALSE ELSE DEFAULT_OPTIONS.mimicWords
      s1 == useBackgroundStyle(s0, Auto, Auto, FALSE)
      blockGap == Min2(Min2(DEFAULT_OPTIONS.gap, lay.width \div GAP_RATIO),
                       lay.height \div GAP_RATIO)
      s2 == IF ~isBlockElement THEN s1
            ELSE IF lay.width * lay.height > BLOCK_MAX_TILE * BLOCK_MAX_TILE
              THEN useBackgroundStyle(s1, Px(Min2(lay.width, BLOCK_MAX_TILE)),
                                      Px(Min2(lay.height, BLOCK_MAX_TILE)), TRUE)
              ELSE setProperty(s1, "--gap", <<blockGap, blockGap>>)
      inlineGap == Min2(lay.lineHeight \div GAP_RATIO, DEFAULT_OPTIONS.gap)
      s3 == IF isBlockElement THEN s2
            ELSE setProperty(useBackgroundStyle(s2, Px(INLINE_MAX_TILE),
                                                Px(lay.lineHeight), TRUE),
                             "--gap", <<0, inlineGap>>)
      s4 == setProperty(setProperty(s3, "--words", mimicWords),
                        "--density", DEFAULT_OPTIONS.density)
  IN IF ~supported \/ o.forceFallback
       THEN setProperty(s0, "--fallback", DEFAULT_OPTIONS.fallback)
       ELSE IF o.accentColor # Null
         THEN setProperty(s4, "--accent", toHsl(ValueOf(o.accentColor)))
         ELSE removeProperty(s4, "--accent")

(* ---- hide / reveal ---- *)
\* mutant of parseFadeDuration: the reduced-motion preference is not consulted
parseFadeDuration_ignoresPreference(value, reducedMotion) ==
  IF value.isBool
    THEN (IF value.bool THEN DEFAULT_FADE_DURATION ELSE 0)
    ELSE value.num

parseFadeDuration(value, reducedMotion) ==
  IF reducedMotion THEN 0
  ELSE IF value.isBool
    THEN (IF value.bool THEN DEFAULT_FADE_DURATION ELSE 0)
    ELSE value.num

\* mutant of hide: the clock is not reset
hide_keepsClock(s, animate, perfNow, supported, reducedMotion) ==
  LET s0 == [s EXCEPT !.isHidden = TRUE]
      s1 == set_fadeDuration(s0, parseFadeDuration(animate, reducedMotion))
      s2 == set_tstop(s1, Null)
  IN IF ~supported \/ s.forceFallback
       THEN setProperty(s0, "background", <<"var(--fallback)">>)
       ELSE startAnimation(s2, perfNow)

hide(s, animate, perfNow, supported, reducedMotion) ==
  LET s0 == [s EXCEPT !.isHidden = TRUE]
      s1 == set_fadeDuration(s0, parseFadeDuration(animate, reducedMotion))
      s2 == set_tstop(s1, Null)
      s3 == set_t(s2, 0)
  IN IF ~supported \/ s.forceFallback
       THEN setProperty(s0, "background", <<"var(--fallback)">>)
       ELSE startAnimation(s3, perfNow)

reveal(s, animate, supported, reducedMotion) ==
  LET s0 == [s EXCEPT !.isHidden = FALSE]
      duration == parseFadeDuration(animate, reducedMotion)
      s1 == set_fadeDuration(s0, duration)
      s2 == set_tstop(s1, Some(s1.t))
  IN IF ~supported \/ s.forceFallback
       THEN removeProperty(s0, "background")
       ELSE IF duration <= 0 THEN stopAnimation(s2) ELSE s2

(* ---- teardown ---- *)
DestroyedProps ==
  {"background", "--t", "--t-stop", "--fade", "--gap", "--words", "--density"}

destroy(s) ==
  LET s0 == stopAnimation([s EXCEPT !.wasDestroyed = TRUE])
  IN [s0 EXCEPT !.style = [p \in PropNames |->
                             IF p \in DestroyedProps THEN Null ELSE s0.style[p]],
                !.observer = FALSE]

(* ---- construction ---- *)
\* the instance after the field initialisers have run
Fields ==
  [wasDestroyed |-> FALSE, maxFPS |-> DEFAULT_FPS, forceFallback |-> FALSE,
   isHidden |-> FALSE, fadeDuration |-> 0, t |-> 0, t0 |-> 0, tstop |-> Null,
   raf |-> Null, observer |-> FALSE,
   style |-> [p \in PropNames |-> Null],
   callbacks |-> {}, nextHandle |-> 1]

constructor(o, lay, supported, reducedMotion) ==
  LET s0 == set_tstop(Fields, Some(0))
      s1 == update(s0, [fps |-> o.fps, forceFallback |-> o.forceFallback,
                        accentColor |-> o.accentColor], lay, supported, reducedMotion)
  IN [s1 EXCEPT !.observer = o.onlyInViewport]

Init ==
  /\ isCSSHoudiniSupported \in BOOLEAN
  /\ prefersReducedMotion \in BOOLEAN
  /\ layout \in Layouts
  /\ \E o \in CtorOptions :
       w = constructor(o, layout, isCSSHoudiniSupported, prefersReducedMotion)
  /\ frameHandles = {}
  /\ frameTs = 0
  /\ wall = 0
  /\ threw = FALSE
  /\ hist = [hideWall |-> Null, autoStopped |-> FALSE]
  /\ worklet = NoPaint

(* ---- steps ---- *)
env == <<isCSSHoudiniSupported, prefersReducedMotion, layout>>
host == <<frameHandles, frameTs, wall>>

\* the running frame once `handles` of its callbacks are left: the host skips
\* the cancelled ones, and the frame is over when none is left
FrameLeft(handles, callbacks) ==
  /\ frameHandles' = handles \cap callbacks
  /\ frameTs' = IF handles \cap callbacks = {} THEN 0 ELSE frameTs

\* a call of the API that returns r (the handle counter is capped)
Returns(r) ==
  /\ r.nextHandle <= MaxHandles + 1
  /\ w' = r
  /\ threw' = FALSE
  /\ FrameLeft(frameHandles, r.callbacks)
  /\ UNCHANGED <<env, wall>>

Throws ==
  /\ threw' = TRUE
  /\ UNCHANGED <<env, host, w>>

Update(o) ==
  IF w.wasDestroyed
    THEN Throws
    ELSE Returns(update(w, o, layout, isCSSHoudiniSupported, prefersReducedMotion))

Hide(animate) ==
  Returns(hide(w, animate, wall, isCSSHoudiniSupported, prefersReducedMotion))

Reveal(animate) ==
  Returns(reveal(w, animate, isCSSHoudiniSupported, prefersReducedMotion))

StartAnimation ==
  Returns(startAnimation(w, wall))

StopAnimation ==
  Returns(stopAnimation(w))

Destroy ==
  Returns(destroy(w))

\* the IntersectionObserver callback, for one entry
Intersect(isIntersecting) ==
  /\ w.observer
  /\ Returns(IF ~isIntersecting THEN stopAnimation(w) ELSE startAnimation(w, wall))

\* performance.now() moves on
AdvanceTime ==
  /\ wall < MaxWall
  /\ wall' = wall + 1
  /\ threw' = FALSE
  /\ UNCHANGED <<env, w, frameHandles, frameTs>>

\* the host starts an animation frame: it takes the handles of the callback
\* map and the frame's timestamp
BeginFrame ==
  /\ frameHandles = {}
  /\ w.callbacks # {}
  /\ frameHandles' = w.callbacks
  /\ frameTs' = wall
  /\ threw' = FALSE
  /\ UNCHANGED <<env, w, wall>>

\* the host runs the next callback of the frame: #frame(frameTs)
FrameTick ==
  /\ frameHandles # {}
  /\ LET handle == SetMin(frameHandles)
         r == frame(cancelAnimationFrame(w, handle), frameTs)
     IN /\ r.nextHandle <= MaxHandles + 1
        /\ w' = r
        /\ FrameLeft(frameHandles \ {handle}, r.callbacks)
  /\ threw' = FALSE
  /\ UNCHANGED <<env, wall>>

\* every operation, at any time
Next ==
  \/ (\E o \in UpdateOptions : Update(o)) /\ UNCHANGED <<hist, worklet>>
  \/ (\E a \in AnimateOptions : Hide(a)) /\ UNCHANGED <<hist, worklet>>
  \/ (\E a \in AnimateOptions : Reveal(a)) /\ UNCHANGED <<hist, worklet>>
  \/ StartAnimation /\ UNCHANGED <<hist, worklet>>
  \/ StopAnimation /\ UNCHANGED <<hist, worklet>>
  \/ Destroy /\ UNCHANGED <<hist, worklet>>
  \/ (\E b \in BOOLEAN : Intersect(b)) /\ UNCHANGED <<hist, worklet>>
  \/ AdvanceTime /\ UNCHANGED <<hist, worklet>>
  \/ BeginFrame /\ UNCHANGED <<hist, worklet>>
  \/ FrameTick /\ UNCHANGED <<hist, worklet>>

Spec == Init /\ [][Next]_vars

\* the clock past the stop mark by more than the fade: clock > StopMark + FadeDuration
PastStopMark(s) ==
  s.tstop # Null /\ s.t > ValueOf(s.tstop) + s.fadeDuration

\* hide, reveal, start/stop and ticks on a controller that is neither
\* reconfigured nor destroyed, with the history recorded
NextClock ==
  \/ /\ \E a \in AnimateOptions : Hide(a)
     /\ hist' = [hideWall |-> Some(wall), autoStopped |-> FALSE]
     /\ UNCHANGED worklet
  \/ /\ \E a \in AnimateOptions : Reveal(a)
     /\ hist' = [hist EXCEPT !.autoStopped = FALSE]
     /\ UNCHANGED worklet
  \/ /\ StartAnimation \/ Intersect(TRUE)
     /\ hist' = [hist EXCEPT !.autoStopped = FALSE]
     /\ UNCHANGED worklet
  \/ /\ StopAnimation \/ Intersect(FALSE)
     /\ UNCHANGED <<hist, worklet>>
  \/ AdvanceTime /\ UNCHANGED <<hist, worklet>>
  \/ BeginFrame /\ UNCHANGED <<hist, worklet>>
  \/ /\ FrameTick
     /\ hist' = [hist EXCEPT !.autoStopped = PastStopMark(w) /\ w'.callbacks = {}]
     /\ UNCHANGED worklet

SpecClock == Init /\ [][NextClock]_vars

\* options of update() that include an accent colour
AccentUpdateOptions ==
  [fps : {Null}, forceFallback : BOOLEAN, accentColor : AccentOptions]

\* configuration with accent colours, hide, reveal, ticks and teardown
NextChannel ==
  \/ (\E o \in AccentUpdateOptions : Update(o)) /\ UNCHANGED <<hist, worklet>>
  \/ (\E a \in AnimateOptions : Hide(a)) /\ UNCHANGED <<hist, worklet>>
  \/ (\E a \in AnimateOptions : Reveal(a)) /\ UNCHANGED <<hist, worklet>>
  \/ Destroy /\ UNCHANGED <<hist, worklet>>
  \/ AdvanceTime /\ UNCHANGED <<hist, worklet>>
  \/ BeginFrame /\ UNCHANGED <<hist, worklet>>
  \/ FrameTick /\ UNCHANGED <<hist, worklet>>

SpecChannel == Init /\ [][NextChannel]_vars

(***************************************************************************)
(* The paint worklet (src/unnamed/part_000).  A 32-bit integer is kept as  *)
(* its two 16-bit halves <<high, low>>, as a product of two of them does   *)
(* not fit the integers of the model checker.                              *)
(***************************************************************************)
\* the controller variables, which the worklet does not touch
controller ==
  <<isCSSHoudiniSupported, prefersReducedMotion, layout, w, frameHandles, frameTs,
    wall, threw, hist>>

\* a page with one freshly constructed painter, while the worklet paints
PainterConstructed ==
  /\ isCSSHoudiniSupported = TRUE
  /\ prefersReducedMotion = FALSE
  /\ layout \in Layouts
  /\ w = constructor([fps |-> Null, forceFallback |-> FALSE, accentColor |-> Null,
                      onlyInViewport |-> FALSE],
                     layout, isCSSHoudiniSupported, prefersReducedMotion)
  /\ frameHandles = {}
  /\ frameTs = 0
  /\ wall = 0
  /\ threw = FALSE
  /\ hist = [hideWall |-> Null, autoStopped |-> FALSE]

\* the 32 bits of a number below 2^31
U32(n) == <<n \div 65536, n % 65536>>

\* the product of two 16-bit numbers, as 32 bits
Mul16(x, y) ==
  LET p0 == x * (y % 256)
      p1 == x * (y \div 256)
      low == p0 + (p1 % 256) * 256
  IN <<((p1 \div 256) + (low \div 65536)) % 65536, low % 65536>>

\* Math.imul: the low 32 bits of the product
imul(a, b) ==
  LET ll == Mul16(a[2], b[2])
      lh == Mul16(a[2], b[1])
      hl == Mul16(a[1], b[2])
  IN <<(ll[1] + lh[2] + hl[2]) % 65536, ll[2]>>

\* the low 32 bits of the sum (all that Math.imul reads of its argument)
add32(a, b) ==
  LET low == a[2] + b[2]
  IN <<(a[1] + b[1] + (low \div 65536)) % 65536, low % 65536>>

\* seed = Math.imul(214013, seed) + 2531011
nextSeed(seed) == add32(imul(U32(214013), seed), U32(2531011))

\* Math.imul(48271, seed) & 0x7fffffff, of the new seed
randBits(seed) ==
  LET p == imul(U32(48271), nextSeed(seed))
  IN <<p[1] % 32768, p[2]>>

\* 0x7fffffff
AllBits == <<32767, 65535>>

\* lcgrand(seed)(a, b) for a <= b: the new seed and the value
\* a + |b - a| * bits / 0x7fffffff, kept as its three parts
lcgrand(seed, a, b) ==
  [seed |-> nextSeed(seed),
   value |-> [a |-> a, span |-> Abs(b - a), bits |-> randBits(seed)]]

\* the value is its lower bound a: nothing is added to a
IsLowerBound(v) == v.span = 0 \/ v.bits = <<0, 0>>
\* the value is a + |b - a|: the fraction bits / 0x7fffffff is 1
IsUpperBound(v) == v.span = 0 \/ v.bits = AllBits

(* ---- the generator on its own ---- *)
\* seeds: the default, the one paint() uses, and one whose first draw has all
\* 31 bits set
Seeds == {U32(1), U32(19234), U32(1078560870)}
\* ranges a <= b: the default, an empty one (the size range when sizedev is
\* 0), the speed range and the lifetime range in ms
Ranges == {<<0, 1>>, <<1, 1>>, <<2, 12>>, <<300, 1500>>}

InitRand ==
  /\ PainterConstructed
  /\ \E s \in Seeds :
       worklet = [kind |-> "rand", seed |-> s, prev |-> s, draws |-> 0, b |-> 0,
                  value |-> [a |-> 0, span |-> 0, bits |-> <<0, 0>>]]

\* one call rand(a, b) of the closure that lcgrand(seed) returns
Rand(a, b) ==
  /\ worklet.kind = "rand"
  /\ worklet.draws < MaxDraws
  /\ LET r == lcgrand(worklet.seed, a, b)
     IN worklet' = [kind |-> "rand", seed |-> r.seed, prev |-> worklet.seed,
                    draws |-> worklet.draws + 1, b |-> b, value |-> r.value]
  /\ UNCHANGED controller

NextRand == \E r \in Ranges : Rand(r[1], r[2])

SpecRand == InitRand /\ [][NextRand]_vars

(* ---- wrapping at the edges of the surface ---- *)
\* the % of JavaScript: the remainder has the sign of the dividend
JSRem(x, n) == IF x >= 0 THEN x % n ELSE -((-x) % n)

cycle(x, n) == JSRem(JSRem(x, n) + n, n)
mirror(x, n, r) == IF x < r THEN n + x ELSE IF x > n - r THEN x - n ELSE x

\* the array of positions that paint() draws the particle at
cycleBounds(pos, size, r) ==
  LET tx == cycle(pos[1], size[1])
      ty == cycle(pos[2], size[2])
  IN << <<tx, ty>>, <<mirror(tx, size[1], r), mirror(ty, size[2], r)>> >>

\* surfaces [width, height] and mirror radii (half the particle size)
SurfaceSizes == {<<4, 5>>}
Radii == 0 .. 2

InitWrap ==
  /\ PainterConstructed
  /\ \E x \in -MaxCoord .. MaxCoord, y \in -MaxCoord .. MaxCoord,
        size \in SurfaceSizes, r \in Radii :
       worklet = [kind |-> "wrap", pos |-> <<x, y>>, size |-> size, r |-> r,
                  done |-> FALSE, out |-> <<>>]

\* paint() takes the positions to draw one particle at
CycleBounds ==
  /\ worklet.kind = "wrap"
  /\ ~worklet.done
  /\ worklet' = [worklet EXCEPT !.done = TRUE,
                   !.out = cycleBounds(worklet.pos, worklet.size, worklet.r)]
  /\ UNCHANGED controller

NextWrap == CycleBounds

SpecWrap == InitWrap /\ [][NextWrap]_vars

(* ---- the life of one particle; times in hundredths of a second ---- *)
\* mutant of trapezoidalWave: the fade-out is divided by the fade-in length
trapezoidalWave_shortFadeOut(t, l, n) ==
  IF t < 20 THEN <<t, 20>>
  ELSE IF t > n - l THEN <<n - t, 20>>
  ELSE <<1, 1>>

\* the size envelope, as the fraction <<numerator, denominator>>
trapezoidalWave(t, l, n) ==
  IF t < 20 THEN <<t, 20>>
  ELSE IF t > n - l THEN <<n - t, l>>
  ELSE <<1, 1>>

\* lifetimes rand(0.3, 1.5) below 1.5 and some respawn gaps rand(0, 1)
Lifetimes == 30 .. 149
Respawns == {0, 37, 100}

InitParticle ==
  /\ PainterConstructed
  /\ \E lifetime \in Lifetimes, respawn \in Respawns, sceneTime \in 0 .. MaxSceneTime :
       worklet = [kind |-> "particle", lifetime |-> lifetime, respawn |-> respawn,
                  sceneTime |-> sceneTime, done |-> FALSE, t |-> 0, drawn |-> FALSE,
                  visibility |-> <<0, 1>>, alpha |-> <<0, 1>>]

\* the part of the loop body of paint() from the local age on, where
\* sceneTime is worldt + phase
PaintParticle ==
  /\ worklet.kind = "particle"
  /\ ~worklet.done
  /\ LET lifetime == worklet.lifetime
         t == Min2(lifetime, JSRem(worklet.sceneTime, lifetime + worklet.respawn))
     IN worklet' =
          IF t >= lifetime
            THEN [worklet EXCEPT !.done = TRUE, !.t = t]
            ELSE [worklet EXCEPT !.done = TRUE, !.t = t, !.drawn = TRUE,
                                 !.visibility = trapezoidalWave(t, 50, lifetime),
                                 !.alpha = <<lifetime - t, lifetime>>]
  /\ UNCHANGED controller

NextParticle == PaintParticle

SpecParticle == InitParticle /\ [][NextParticle]_vars

(* ---- one paint; times in ms, the angle in thousandths of a radian ---- *)
\* the surface of a paint: a 300 x 100 block with --gap 6px 6px, on a display
\* with devicePixelRatio 1 (sizedev 0) and the default accent (lightness 70)
Surface == [width |-> 300, height |-> 100, vgap |-> 6, hgap |-> 6, sizedev |-> 0]

\* a value of lcgrand rounded down to a whole number, from the 15 high bits of
\* its 31
Whole(v) == v.a + (v.span * v.bits[1]) \div 32768

\* rand() > 0.5: more than half of 0x7fffffff
MoreThanHalf(v) == v.bits[1] >= 16384

\* mutant of Statements: the lightness and the shape are drawn after the age
\* check, for the particles that pass it
Statements_drawsWhenVisible ==
  <<"x0", "y0", "v0mag", "size0", "angle", "lifetime", "respawn", "phase",
    "age", "lightness", "shape">>

\* the statements of the loop body of paint(), in program order: the ten
\* draws, then the age check that ends the iteration for a particle that is
\* not visible
Statements ==
  <<"x0", "y0", "v0mag", "size0", "lightness", "angle", "shape", "lifetime",
    "respawn", "phase", "age">>

\* the range of the draw that a statement makes, given the fields drawn so far
drawRange(stmt, cur) ==
  CASE stmt = "x0" -> <<Surface.vgap, Surface.width - Surface.vgap>>
    [] stmt = "y0" -> <<Surface.hgap, Surface.height - Surface.hgap>>
    [] stmt = "v0mag" -> <<2, 12>>
    [] stmt = "size0" -> <<1, 1 + Surface.sizedev>>
    [] stmt = "lightness" -> <<0, 1>>
    [] stmt = "angle" -> <<0, 6283>>
    [] stmt = "shape" -> <<0, 1>>
    [] stmt = "lifetime" -> <<300, 1500>>
    [] stmt = "respawn" -> <<0, 1000>>
    [] stmt = "phase" -> <<0, Whole(cur.lifetime) + Whole(cur.respawn)>>

\* the local age: Math.min(lifetime, (worldt + phase) % (lifetime + respawn))
localAge(worldt, cur) ==
  Min2(Whole(cur.lifetime),
       JSRem(worldt + Whole(cur.phase), Whole(cur.lifetime) + Whole(cur.respawn)))

\* paint p after the statement it is at
afterStatement(p) ==
  LET stmt == Statements[p.pc]
      range == drawRange(stmt, p.cur)
      r == lcgrand(p.seed, range[1], range[2])
      field == IF stmt = "shape"
                 THEN (IF MoreThanHalf(r.value) THEN "square" ELSE "circle")
                 ELSE r.value
  IN IF stmt = "age"
       THEN [p EXCEPT !.visible = localAge(p.worldt, p.cur) < Whole(p.cur.lifetime)]
       ELSE [p EXCEPT !.seed = r.seed,
                      !.cur = (stmt :> field) @@ p.cur,
                      !.log = Append(p.log, r.value.bits)]

\* one statement of the loop body; `continue` and the end of the body start
\* the next iteration
paintStatement(p) ==
  LET p1 == afterStatement(p)
      continue == Statements[p.pc] = "age" /\ ~p1.visible
  IN IF continue \/ p.pc = Len(Statements)
       THEN [p1 EXCEPT !.i = p.i + 1, !.pc = 1, !.cur = <<>>, !.log = <<>>,
                       !.particles = Append(p.particles, p1.cur),
                       !.draws = Append(p.draws, p1.log),
                       !.drawn = Append(p.drawn, p1.visible)]
       ELSE [p1 EXCEPT !.pc = p.pc + 1]

\* values of --t that the paints read
WorldTimes == {0, 208, 1000, 1737}

\* paint() up to its loop: const rand = lcgrand(19234), worldt from --t
startPaint(worldt) ==
  [worldt |-> worldt, seed |-> U32(19234), i |-> 0, pc |-> 1, cur |-> <<>>,
   log |-> <<>>, visible |-> FALSE,
   particles |-> <<>>, draws |-> <<>>, drawn |-> <<>>]

\* two independent paints of the same surface
InitPaint ==
  /\ PainterConstructed
  /\ \E ta \in WorldTimes, tb \in WorldTimes :
       worklet = [kind |-> "paint", paints |-> <<startPaint(ta), startPaint(tb)>>]

\* paint k runs the next statement of its loop
PaintLoop(k) ==
  /\ worklet.kind = "paint"
  /\ worklet.paints[k].i < MaxParticles
  /\ worklet' = [worklet EXCEPT !.paints[k] = paintStatement(@)]
  /\ UNCHANGED controller

NextPaint == \E k \in 1 .. 2 : PaintLoop(k)

SpecPaint == InitPaint /\ [][NextPaint]_vars

(***************************************************************************)
(* Properties                                                              *)
(***************************************************************************)
\* the rendering path is in use: the capability exists and is not forced off
Rendering(s) == isCSSHoudiniSupported /\ ~s.forceFallback

HideStep == \E a \in AnimateOptions : Hide(a)
RevealStep == \E a \in AnimateOptions : Reveal(a)
UpdateStep == \E o \in UpdateOptions : Update(o)

\* C1: in every reachable state at most one frame tick of the controller is
\* pending in the host scheduler.
C1_AtMostOneTickPending == Cardinality(w.callbacks) <= 1

\* C2: on a destroyed controller every call of update(), hide() or reveal()
\* raises an error and leaves isHidden, the clock, StopMark, FadeDuration and
\* the published channel values unchanged.
C2_UseAfterDestroyFails ==
  [][(w.wasDestroyed /\ (UpdateStep \/ HideStep \/ RevealStep))
       => /\ threw'
          /\ w'.isHidden = w.isHidden
          /\ w'.t = w.t
          /\ w'.tstop = w.tstop
          /\ w'.fadeDuration = w.fadeDuration
          /\ w'.style = w.style]_vars

\* C3: once destroyed the controller stays destroyed, isAnimating is false in
\* every state from destroy() on, no step schedules a frame tick, and a frame
\* tick that still fires neither advances the clock nor reschedules itself.
C3_DestroyedIsInert ==
  [][/\ w'.wasDestroyed => ~isAnimating(w')
     /\ w.wasDestroyed =>
          /\ w'.wasDestroyed
          /\ w'.callbacks \subseteq w.callbacks
          /\ FrameTick => (w'.t = w.t /\ w'.t0 = w.t0 /\ w'.style = w.style)]_vars

\* a destroyed controller of which a scheduled tick is about to fire
C3_Witness == w.wasDestroyed /\ frameHandles # {} /\ w.isHidden

\* C4: after reveal with a fade F > 0 at clock s (s = 0 included), a frame tick
\* that finds clock > s + F schedules no further tick, so the chain of ticks ends.
C4_TickPastStopMarkEndsChain ==
  [][(/\ FrameTick
      /\ hist.hideWall # Null /\ Rendering(w) /\ ~w.wasDestroyed /\ w.maxFPS > 0
      /\ ~w.isHidden /\ w.fadeDuration > 0 /\ PastStopMark(w))
       => w'.callbacks \subseteq w.callbacks]_vars

\* the chain of ticks ended on a tick that found clock > StopMark + F, after
\* hide() and then reveal with F > 0
AutoStopped ==
  /\ hist.autoStopped /\ hist.hideWall # Null
  /\ Rendering(w) /\ ~w.wasDestroyed /\ w.maxFPS > 0
  /\ ~w.isHidden /\ w.fadeDuration > 0 /\ PastStopMark(w)
  /\ w.callbacks = {}

\* C5: once the controller has auto-stopped after reveal, isAnimating reads false.
C5_AutoStoppedNotAnimating == AutoStopped => ~isAnimating(w)

\* C6: once the controller has auto-stopped after reveal, StopMark is unset and
\* the channel value t-stop is absent.
C6_AutoStoppedClearsStopMark ==
  AutoStopped => (w.tstop = Null /\ w.style["--t-stop"] = Null)

\* C7: on return from a reveal with fade duration <= 0 on a controller that is
\* not destroyed, no frame tick is pending and isAnimating is false (so the
\* clock stays until the next hide()/startAnimation()).
C7_InstantRevealIsIdle ==
  [][\A a \in AnimateOptions :
       (/\ ~w.wasDestroyed
        /\ parseFadeDuration(a, prefersReducedMotion) <= 0
        /\ Reveal(a))
         => (w'.callbacks = {} /\ ~isAnimating(w'))]_vars

\* what C8 says of the state s on return from hide(animate)
HideResult(s, animate) ==
  /\ s.tstop = Null /\ s.style["--t-stop"] = Null
  /\ s.t = 0 /\ s.style["--t"] = Some(toFixed3(0))
  /\ s.fadeDuration = parseFadeDuration(animate, prefersReducedMotion)
  /\ s.isHidden
  /\ isAnimating(s) /\ ValueOf(s.raf) \in s.callbacks

\* C8 (as amended): on return from hide(fadeSpec) on a controller that is not
\* destroyed, with the rendering capability available, forceFallback not set and
\* maxFPS > 0: StopMark is unset and t-stop absent, the clock and the published
\* t are 0, FadeDuration is the parsed fadeSpec, isHidden is true, and a tick
\* is pending with isAnimating true.
C8_HideStartsRunning ==
  [][\A a \in AnimateOptions :
       (~w.wasDestroyed /\ Rendering(w) /\ w.maxFPS > 0 /\ Hide(a))
         => HideResult(w', a)]_vars

\* C8 as stated: the same with the rendering capability available only
\* (forceFallback may be set).
C8_HideStartsRunning_AsStated ==
  [][\A a \in AnimateOptions :
       (~w.wasDestroyed /\ isCSSHoudiniSupported /\ w.maxFPS > 0 /\ Hide(a))
         => HideResult(w', a)]_vars

\* hide() has just returned, some time after construction, on a rendering
\* controller: hidden, fade 1.5 s, clock 0 with the reference time taken from
\* performance.now(), no stop mark, a tick pending
C8_Witness ==
  /\ ~w.wasDestroyed /\ Rendering(w) /\ w.maxFPS > 0
  /\ w.isHidden /\ w.tstop = Null /\ w.t = 0 /\ w.t0 = wall /\ wall > 0
  /\ w.fadeDuration = DEFAULT_FADE_DURATION
  /\ Cardinality(w.callbacks) = 1 /\ isAnimating(w)

\* C9: the clock never exceeds the time elapsed since the last hide(), and a
\* frame tick either skips (clock and reference unchanged) or adds exactly
\* (timestamp - reference) to the clock and takes the timestamp as reference.
C9_NoTimeCreated ==
  [][/\ hist'.hideWall # Null => w'.t <= wall' - ValueOf(hist'.hideWall)
     /\ FrameTick =>
          \/ w'.t = w.t /\ w'.t0 = w.t0
          \/ w'.t = w.t + (frameTs - w.t0) /\ w'.t0 = frameTs]_vars

\* C10: the clock is never negative, and no step lowers it except hide(),
\* which resets it to 0.
C10_ClockMonotone ==
  [][/\ w'.t >= 0
     /\ w'.t < w.t => (HideStep /\ w'.t = 0)]_vars

\* a visibility signal: the observer's callback runs for an entry
IntersectStep == \E b \in BOOLEAN : Intersect(b)

\* C11: while maxFPS is 0, no hide, reveal, startAnimation, stopAnimation or
\* visibility signal schedules a frame tick, and none changes the clock except
\* hide(), which resets it to 0; under the reduced-motion preference
\* FadeDuration is 0 on return from every hide and reveal, whatever animate is.
C11_StaticWhenNoFps ==
  [][/\ (/\ w.maxFPS = 0
         /\ (HideStep \/ RevealStep \/ StartAnimation \/ StopAnimation \/ IntersectStep))
          => /\ w'.callbacks \subseteq w.callbacks
             /\ w'.t = w.t \/ (HideStep /\ w'.t = 0)
     /\ (prefersReducedMotion /\ (HideStep \/ RevealStep))
          => (w'.maxFPS = 0 /\ w'.fadeDuration = 0)]_vars

\* hide() has returned under the reduced-motion preference, some time after
\* construction: hidden, fade published as 0, the reference time taken, and
\* nothing scheduled
C11_Witness ==
  /\ prefersReducedMotion /\ w.maxFPS = 0 /\ Rendering(w) /\ ~w.wasDestroyed
  /\ w.isHidden /\ w.style["--fade"] = Some(<<0, "s">>)
  /\ wall > 0 /\ w.t0 = wall /\ w.t = 0
  /\ w.callbacks = {} /\ w.nextHandle = 1

\* C12: on return from stopAnimation() (called directly or by the observer for
\* an entry that does not intersect) the clock, StopMark, FadeDuration and
\* isHidden are as they were, and no frame tick is pending, so that the
\* clock cannot advance before the next startAnimation() or hide().
C12_StopIsImmediate ==
  [][(StopAnimation \/ Intersect(FALSE))
       => /\ w'.t = w.t /\ w'.tstop = w.tstop
          /\ w'.fadeDuration = w.fadeDuration /\ w'.isHidden = w.isHidden
          /\ w'.callbacks = {}]_vars

\* two controller states that differ at most in the values of the handles:
\* the same fields and channel, the same number of pending ticks
SameOutcome(a, b) ==
  /\ [a EXCEPT !.raf = Null, !.nextHandle = 0, !.callbacks = {}]
       = [b EXCEPT !.raf = Null, !.nextHandle = 0, !.callbacks = {}]
  /\ isAnimating(a) = isAnimating(b)
  /\ Cardinality(a.callbacks) = Cardinality(b.callbacks)

\* C13: in every reachable state, startAnimation() called twice at the same
\* instant gives the same controller state and as many pending ticks as
\* startAnimation() called once, and likewise stopAnimation().
C13_StartStopIdempotent ==
  /\ SameOutcome(startAnimation(startAnimation(w, wall), wall), startAnimation(w, wall))
  /\ SameOutcome(stopAnimation(stopAnimation(w)), stopAnimation(w))

\* C14: while the fallback is in use (the rendering capability is missing or
\* forceFallback is set), no hide, reveal or visibility signal schedules a
\* frame tick or changes the clock, and isAnimating stays false.
C14_FallbackIsStatic ==
  [][(~Rendering(w) /\ (HideStep \/ RevealStep \/ IntersectStep))
       => /\ w'.callbacks \subseteq w.callbacks
          /\ w'.t = w.t
          /\ ~isAnimating(w) => ~isAnimating(w')]_vars

\* the channel values published to the renderer
ChannelProps ==
  {"--t", "--t-stop", "--fade", "--gap", "--density", "--accent", "--words"}

\* C15: on return from destroy(), after any sequence of update (with or
\* without accentColor), hide and reveal, none of the channel values t,
\* t-stop, fade, gap, density, accent, words is set on the element.
C15_DestroyClearsChannel ==
  [][Destroy => \A p \in ChannelProps : w'.style[p] = Null]_vars

\* C19: a frame tick of a controller that is not destroyed, with maxFPS > 0 and
\* the clock not past StopMark + FadeDuration, requests the next tick, and
\* with elapsed = timestamp - reference: if 0 < elapsed < 1000/maxFPS the
\* clock, the published t and the reference time stay as they were; if
\* elapsed >= 1000/maxFPS or elapsed = 0 the clock advances by elapsed (and is
\* published) and the timestamp becomes the reference time.
C19_ThrottleDecision ==
  [][(FrameTick /\ ~w.wasDestroyed /\ w.maxFPS > 0 /\ ~PastStopMark(w))
       => LET elapsed == frameTs - w.t0
              scheduled == /\ isAnimating(w')
                           /\ ValueOf(w'.raf) \in w'.callbacks \ w.callbacks
          IN /\ (0 < elapsed /\ elapsed * w.maxFPS < 1000)
                  => /\ w'.t = w.t /\ w'.style["--t"] = w.style["--t"]
                     /\ w'.t0 = w.t0
                     /\ scheduled
             /\ (elapsed = 0 \/ elapsed * w.maxFPS >= 1000)
                  => /\ w'.t = w.t + elapsed
                     /\ w'.style["--t"] = Some(toFixed3(w.t + elapsed))
                     /\ w'.t0 = frameTs
                     /\ scheduled]_vars

\* a tick has advanced the clock of a running controller and the next tick is
\* pending
C19_Witness ==
  /\ ~w.wasDestroyed /\ w.maxFPS > 0 /\ ~PastStopMark(w)
  /\ w.t > 0 /\ w.style["--t"] = Some(toFixed3(w.t)) /\ w.t0 > 0
  /\ isAnimating(w) /\ ValueOf(w.raf) \in w.callbacks /\ w.nextHandle > 2

\* C18: the value v of a draw rand(a, b) with a <= b is below b when a < b
\* (v >= a holds as nothing negative is added to a) and is a when a = b, and
\* the new seed is (214013 * seed + 2531011) mod 2^32.
C18_RandInRange ==
  (worklet.kind = "rand" /\ worklet.draws > 0)
    => /\ worklet.value.a < worklet.b => ~IsUpperBound(worklet.value)
       /\ worklet.value.a = worklet.b => IsLowerBound(worklet.value)
       /\ worklet.seed = add32(imul(U32(214013), worklet.prev), U32(2531011))

\* the wrapped coordinate c lies within r of an edge of an axis of length n
NearEdge(c, n, r) == c < r \/ c > n - r

\* C16: the first position that cycleBounds returns has each coordinate in
\* [0, size) of its axis; if it lies within r of an edge, exactly two distinct
\* positions are returned, which differ by exactly the surface dimension on
\* each axis where it does and not at all on the other; otherwise exactly one
\* position is returned.
C16_WrapCorrect ==
  (worklet.kind = "wrap" /\ worklet.done)
    => LET out == worklet.out
           n == worklet.size
           r == worklet.r
       IN /\ \A k \in 1 .. 2 : 0 <= out[1][k] /\ out[1][k] < n[k]
          /\ IF \E k \in 1 .. 2 : NearEdge(out[1][k], n[k], r)
               THEN /\ Len(out) = 2
                    /\ out[1] # out[2]
                    /\ \A k \in 1 .. 2 :
                         Abs(out[2][k] - out[1][k])
                           = IF NearEdge(out[1][k], n[k], r) THEN n[k] ELSE 0
               ELSE Len(out) = 1

\* the fraction f lies in [0, 1]
InUnit(f) == f[2] > 0 /\ 0 <= f[1] /\ f[1] <= f[2]

\* C17: for every lifetime in [0.3, 1.5) and every local age t below it, the
\* particle is drawn with alpha = 1 - t/lifetime in [0, 1] and the size
\* envelope trapezoidalWave(t, 0.5, lifetime) in [0, 1]; a particle whose
\* local age equals its lifetime is not drawn.
C17_VisibilityBounds ==
  (worklet.kind = "particle" /\ worklet.done)
    => /\ worklet.t <= worklet.lifetime
       /\ worklet.t < worklet.lifetime
            => /\ worklet.drawn
               /\ worklet.alpha = <<worklet.lifetime - worklet.t, worklet.lifetime>>
               /\ InUnit(worklet.alpha)
               /\ InUnit(worklet.visibility)
       /\ worklet.t = worklet.lifetime => ~worklet.drawn

\* a drawn particle that lives less than 0.5 s, past its fade-in: the
\* fade-out branch applies from the start of its life
C17_Witness ==
  /\ worklet.kind = "particle" /\ worklet.done /\ worklet.drawn
  /\ worklet.lifetime < 50 /\ worklet.t >= 20
  /\ worklet.visibility = <<worklet.lifetime - worklet.t, 50>>

\* the draws a particle's fields were made from, but for its shape
FieldDraws(q) ==
  <<q.x0.bits, q.y0.bits, q.v0mag.bits, q.size0.bits, q.lightness.bits,
    q.angle.bits, q.lifetime.bits, q.respawn.bits, q.phase.bits>>

\* the fields of a particle
FieldNames ==
  {"x0", "y0", "v0mag", "size0", "lightness", "angle", "shape", "lifetime",
   "respawn", "phase"}

\* C20: for every particle of a paint, drawn or not, exactly ten draws are
\* taken from the generator, one after the other, which are in order the
\* particle's origin x, origin y, speed, size, lightness factor, angle, shape,
\* lifetime, respawn gap and phase; and particle i has the same fields in two
\* paints of the same surface, whatever worldt each reads.
C20_SameDrawsPerParticle ==
  [][/\ \A k \in 1 .. 2 :
          PaintLoop(k)
            => LET p == worklet.paints[k]
                   q == worklet'.paints[k]
                   j == q.i
                   ended == j = p.i + 1
                   taken == IF ended THEN q.draws[j] ELSE q.log
               IN /\ \/ q.seed = p.seed /\ taken = p.log
                     \/ /\ q.seed = add32(imul(U32(214013), p.seed), U32(2531011))
                        /\ taken = Append(p.log, randBits(p.seed))
                  /\ ended
                       => /\ Len(q.particles) = j /\ Len(q.drawn) = j
                          /\ Len(q.draws[j]) = 10
                          /\ DOMAIN q.particles[j] = FieldNames
                          /\ FieldDraws(q.particles[j])
                               = [n \in 1 .. 9 |-> q.draws[j][IF n < 7 THEN n ELSE n + 1]]
                          /\ q.particles[j].shape = "square"
                               <=> MoreThanHalf([bits |-> q.draws[j][7]])
     /\ worklet'.kind = "paint"
          => \A j \in 1 .. Min2(worklet'.paints[1].i, worklet'.paints[2].i) :
               worklet'.paints[1].particles[j] = worklet'.paints[2].particles[j]]_vars

\* both paints are done and some particle is drawn by one and skipped by the
\* other
C20_Witness ==
  /\ worklet.kind = "paint"
  /\ worklet.paints[1].i = worklet.paints[2].i /\ worklet.paints[1].i >= 3
  /\ \E j \in 1 .. worklet.paints[1].i :
       worklet.paints[1].drawn[j] /\ ~worklet.paints[2].drawn[j]
====
